---------------------------- MODULE Spec2Model ----------------------------
(***************************************************************************)
(* State-machine model of the WarpBuild docker-configure action:          *)
(*   - run() / setupBuildxNode() / waitForBuilderDetails()  (main.js)     *)
(*   - assignBuilders(), in its two source variants:                       *)
(*       "single"   : assignBuilders(config, profileName, startTime,      *)
(*                    timeout), one profile, deadline start passed in;    *)
(*       "profiles" : assignBuilders(config, profileName, timeout),       *)
(*                    comma separated profile list, global.startTime;     *)
(*   - teardownBuilder() and cleanup()  (cleanup.js, the post step).      *)
(* Time is the wall clock in milliseconds.  It advances only at the       *)
(* suspension points of the code: awaited requests and setTimeout sleeps. *)
(* The caller of the "profiles" variant is not among the sources; it is   *)
(* taken to be the same run(), with global.startTime set where run()      *)
(* takes its own startTime.                                               *)
(***************************************************************************)
EXTENDS Integers, Sequences, FiniteSets

\* ------------------------------------------------------------------ bounds
\* a request takes 0..MaxLatencyTicks ticks
MaxLatencyTicks == 1
\* the timeout input, in ticks
TimeoutTicks == 6
\* most builder instances an assign response carries
MaxBuilders == 2
\* most profile names in the profile-name input
MaxProfiles == 2
\* most runs of the cleanup step on one persisted record
MaxCleanupRuns == 2
\* most comma-separated entries of an arch string
MaxArchEntries == 2
RetryTimeoutTicks == 11

\* ------------------------------------------------------- program constants
AssignWaitMs == 10000
PollWaitMs == 2000

\* clock granularity of the network latency (ms)
Tick == PollWaitMs

Latencies == {k * Tick : k \in 0..MaxLatencyTicks}
Timeouts == {TimeoutTicks * Tick}
Variants == {"single", "profiles"}

\* Credential strings are sequences of characters; <<>> is unset or empty.
\* the literal placeholder value 'true' of the verification token
TrueLiteral == <<"t", "r", "u", "e">>

\* <<verification token, api-key input>> pairs the runs start from
Credentials == {<< <<>>, <<"k">> >>, << <<"a">>, <<>> >>, << TrueLiteral, <<>> >>}

\* the pairs the credential properties are checked over: every token with
\* every api-key, values with a ':' among them
AuthTokens == {<<>>, TrueLiteral, <<"a">>, <<"a", ":", "b">>}
AuthKeys == {<<>>, <<"k">>, <<"k", ":", "z">>}
AuthCredentials == AuthTokens \X AuthKeys

\* HTTP statuses the provisioning service answers with
AssignStatuses == {200, 400, 404, 409, 429, 503}
TeardownStatuses == {200, 404, 500, 503}

\* the profile names configured on the service, one character each
ProfileLetters == <<"a", "b", "c", "d">>

\* the profile-name input naming the first n profiles: "a", "a , b", "a , b , c"
RECURSIVE ProfileInput(_)
ProfileInput(n) ==
    IF n = 1 THEN <<ProfileLetters[1]>>
    ELSE ProfileInput(n - 1) \o <<" ", ",", " ", ProfileLetters[n]>>

\* ---------------------------------------------------------------- state
VARIABLES
    variant,          \* which assignBuilders source is linked in
    envToken,         \* process.env.WARPBUILD_RUNNER_VERIFICATION_TOKEN (<<>> = unset)
    apiKey,           \* core.getInput('api-key')
    shouldSetupBuildx,\* core.getInput('should-setup-buildx') !== 'false'
    timeout,          \* the timeout input (ms)
    profileName,      \* core.getInput('profile-name'), a sequence of characters
    arch,             \* details.arch the service reports for the machines
    now,              \* Date.now(), as time since the running process started
    pc,               \* position of run()
    startTime,        \* run()'s local startTime
    globalStartTime,  \* global.startTime ("profiles" variant)
    elapsedTime,      \* assignBuilders' elapsedTime, computed before the request
    profIdx,          \* index of the profile being tried
    reqProfile,       \* profile_name in the body of the last assign request
    lastAssign,       \* class of the last assign response
    sleepAfter,       \* class of the response the current/last backoff sleep follows
    abTrace,          \* what the running polling loop of assignBuilders has done so far, in order
    builders,         \* number of builder instances of the successful assign
    savedState,       \* core.saveState('WARPBUILD_BUILDERS'): builders, <<>> = none
    savedName,        \* builderName of the saved record, "none" = no record
    idx,              \* machine index being set up (1-based)
    lastDetails,      \* class of the last get-details response
    detailsHttp,      \* response.statusCode of the pending response being waited out (0: none)
    readyIds,         \* machines waitForBuilderDetails returned details for
    certs,            \* number of certificate files written, per machine
    registered,       \* buildx create calls that succeeded, in order
    outputs,          \* the outputs set: [index, field, from (machine id)]
    builderPlatforms, \* setupBuildxNode's builderPlatforms (<<>> = not computed)
    failMsg,          \* core.setFailed message class, "none" = not failed
    pcC,              \* position of cleanup()
    clRun,            \* runs of cleanup.js started so far
    clIdx,            \* index in the builders loop of cleanup
    clAttempt,        \* 1 = first teardown of this machine, 2 = the retry
    tdReqs,           \* teardown requests issued for the machine at clIdx
    tornDown,         \* ids a teardown request was issued for
    lastTd,           \* what the last teardown attempt met: HTTP status or TransportError
    rmDone,           \* "none" | "ok" | "failed": docker buildx rm
    rmName,           \* the name docker buildx rm was called with, "none" = not called
    warned            \* cleanup called core.warning

envVars == <<variant, envToken, apiKey, shouldSetupBuildx, timeout, profileName, arch>>
assignVars == <<startTime, globalStartTime, elapsedTime, profIdx, reqProfile,
                lastAssign, sleepAfter, abTrace, builders>>
setupVars == <<savedState, savedName, idx, lastDetails, detailsHttp, readyIds, certs, registered, outputs,
               builderPlatforms>>
cleanupVars == <<pcC, clRun, clIdx, clAttempt, tdReqs, tornDown, lastTd, rmDone, rmName,
                 warned>>
vars == <<envVars, now, pc, assignVars, setupVars, failMsg, cleanupVars>>

Machines == 1..MaxBuilders

\* values of lastTd besides an HTTP status
NoAttempt == -1
TransportError == 0

\* run() starts when the process starts
RunStart == 0
\* ------------------------------------------------------- WarpBuildConfig
\* mutant of checkIsWarpbuildRunner: any token that is set counts
checkIsWarpbuildRunnerAnyToken(token) == token # <<>>

\* Boolean(token && token !== 'true')
checkIsWarpbuildRunner(token) == token # <<>> /\ token # TrueLiteral

\* the text before the credential in `Authorization: Bearer ${...}`; the header
\* name and the scheme are one character each here
AuthPrefix == <<"Authorization", ":", " ", "Bearer", " ">>

\* config.authHeader: `Authorization: Bearer ${token}` on a WarpBuild runner,
\* else `Authorization: Bearer ${apiKey}` (the constructor throws before that
\* when the api-key is empty)
generateAuthHeader(token, key) ==
    IF checkIsWarpbuildRunner(token) THEN AuthPrefix \o token ELSE AuthPrefix \o key

ConfigThrows(token, key) ==
    ~checkIsWarpbuildRunner(token) /\ key = <<>>

\* ------------------------------------------------------ response classes
\* response.statusCode >= 200 && < 300 && responseData.builder_instances?.length > 0
IsAssignSuccess(status, n) == status >= 200 /\ status < 300 /\ n > 0

\* [409, 429].includes(statusCode) || (statusCode >= 500 && statusCode < 600)
IsRetryableStatus(status) == status \in {409, 429} \/ (status >= 500 /\ status < 600)

\* An assign outcome: a transport error, or a response with a status and a body
\* (parseable or not, n = builder_instances.length, 0 when absent).
AssignOutcomes ==
    {[net |-> FALSE, status |-> 0, parseable |-> FALSE, n |-> 0]}
    \cup [net : {TRUE}, status : AssignStatuses, parseable : BOOLEAN, n : 0..MaxBuilders]

\* what assignBuilders' loop body does with an outcome:
\* "return", "throw" (an Error raised inside the try) or "retry" (fall to the wait)
AssignStep(o) ==
    IF ~o.net THEN "throw"
    ELSE IF ~o.parseable THEN "throw"
    ELSE IF IsAssignSuccess(o.status, o.n) THEN "return"
    ELSE IF ~IsRetryableStatus(o.status) THEN "throw"
    ELSE "retry"

\* the class of an outcome, recorded for the properties: by status first
\* ("_badbody": the body could not be parsed)
AssignClass(o) ==
    IF ~o.net THEN "transport"
    ELSE IF IsRetryableStatus(o.status)
            THEN (IF o.parseable THEN "retryable" ELSE "retryable_badbody")
    ELSE IF o.parseable /\ IsAssignSuccess(o.status, o.n) THEN "success"
    ELSE IF o.parseable THEN "fatal" ELSE "fatal_badbody"

\* HTTP statuses of get-details responses: a success and an error status
DetailsHttpStatuses == {200, 503}

\* details.status values ("absent": the body has no status field)
DetailsStatuses == {"ready", "failed", "pending", "absent"}

\* details.metadata?.host values ("absent": no metadata or no host field)
DetailsHosts == {"absent", "", "host:port"}

\* Platform strings are sequences of the pieces "linux/", an architecture
\* name, "," and " ".
\* details.arch of the runs of Spec
DefaultArch == <<"amd64", ",", "arm64">>

\* the entries arch strings are built from: bare, bare after a space, namespaced
ArchEntries == {<<"amd64">>, <<" ", "arm64">>, <<"linux/", "amd64">>}

\* the arch strings of 1..n comma-separated entries
RECURSIVE ArchStrings(_)
ArchStrings(n) ==
    IF n = 1 THEN ArchEntries
    ELSE ArchStrings(n - 1)
         \cup {a \o <<",">> \o e : a \in ArchStrings(n - 1), e \in ArchEntries}

\* a get-details outcome: transport error, unparseable body, or {status, metadata.host}
\* (http: response.statusCode; a transport error has no response)
DetailsOutcomes ==
    {[kind |-> "transport", status |-> "", host |-> "absent", http |-> 0]}
    \cup [kind : {"unparseable"}, status : {""}, host : {"absent"}, http : DetailsHttpStatuses]
    \cup [kind : {"json"}, status : DetailsStatuses, host : DetailsHosts, http : DetailsHttpStatuses]

\* mutant of HasHost: only an absent host counts as missing
HasHostIfPresent(o) == o.host # "absent"

\* details.metadata?.host is truthy: present and not the empty string
HasHost(o) == o.host # "absent" /\ o.host # ""

\* ------------------------------------------------------------------ Init
\* the state of the two processes before main.js starts
InitState ==
    /\ now = 0
    /\ pc = "start"
    /\ startTime = 0
    /\ globalStartTime = 0
    /\ elapsedTime = 0
    /\ profIdx = 1
    /\ reqProfile = <<>>
    /\ lastAssign = "none"
    /\ sleepAfter = "none"
    /\ abTrace = <<>>
    /\ builders = 0
    /\ savedState = <<>>
    /\ savedName = "none"
    /\ idx = 0
    /\ lastDetails = "none"
    /\ detailsHttp = 0
    /\ readyIds = {}
    /\ certs = [m \in Machines |-> 0]
    /\ registered = <<>>
    /\ outputs = {}
    /\ builderPlatforms = <<>>
    /\ failMsg = "none"
    /\ pcC = "idle"
    /\ clRun = 0
    /\ clIdx = 0
    /\ clAttempt = 0
    /\ tdReqs = 0
    /\ tornDown = {}
    /\ lastTd = NoAttempt
    /\ rmDone = "none"
    /\ rmName = "none"
    /\ warned = FALSE

Init ==
    /\ variant \in Variants
    /\ \E c \in Credentials : envToken = c[1] /\ apiKey = c[2]
    /\ shouldSetupBuildx \in BOOLEAN
    /\ timeout \in Timeouts
    /\ profileName \in {ProfileInput(n) : n \in 1..MaxProfiles}
    /\ (variant = "single" => profileName = ProfileInput(1))
    /\ arch = DefaultArch
    /\ InitState

\* the runs of one profile with buildx setup, over every credential pair
AuthInit ==
    /\ variant \in Variants
    /\ \E c \in AuthCredentials : envToken = c[1] /\ apiKey = c[2]
    /\ shouldSetupBuildx = TRUE
    /\ timeout \in Timeouts
    /\ profileName = ProfileInput(1)
    /\ arch = DefaultArch
    /\ InitState

\* the runs of one profile with buildx setup, over every arch string
PlatInit ==
    /\ variant = "single"
    /\ envToken = <<>>
    /\ apiKey = <<"k">>
    /\ shouldSetupBuildx = TRUE
    /\ timeout \in Timeouts
    /\ profileName = ProfileInput(1)
    /\ arch \in ArchStrings(MaxArchEntries)
    /\ InitState

\* ------------------------------------------------------------------ run()
\* core.setFailed(error.message) in run()'s catch
Fail(msg) ==
    /\ failMsg' = msg
    /\ pc' = "done"

\* error.isTimeout of the Error a message class belongs to: only the
\* "TIMEOUT: Profile ..." errors of assignBuilders(config, profileName,
\* startTime, timeout) are built with timeoutError.isTimeout = true; every
\* other throw is a plain new Error(message)
IsTimeoutError(msg) == msg = "TIMEOUT"

\* run(): startTime = Date.now(); new WarpBuildConfig(); call assignBuilders
Run_Start ==
    /\ pc = "start"
    /\ startTime' = now
    /\ globalStartTime' = now
    /\ IF ConfigThrows(envToken, apiKey)
          THEN Fail("ConfigError")
          ELSE pc' = "ab_check" /\ failMsg' = failMsg
    /\ UNCHANGED <<envVars, now, elapsedTime, profIdx, reqProfile, lastAssign,
                   sleepAfter, abTrace, builders, setupVars, cleanupVars>>

\* String.prototype.split(','): the pieces between the commas, in order
RECURSIVE SplitComma(_)
SplitComma(str) ==
    IF \A i \in 1..Len(str) : str[i] # ","
       THEN <<str>>
       ELSE LET k == CHOOSE i \in 1..Len(str) :
                        str[i] = "," /\ \A j \in 1..(i - 1) : str[j] # ","
            IN  <<SubSeq(str, 1, k - 1)>> \o SplitComma(SubSeq(str, k + 1, Len(str)))

\* mutant of Trim: the piece is used as it stands
TrimNothing(str) == str

\* String.prototype.trim(): no whitespace at either end
RECURSIVE Trim(_)
Trim(str) ==
    IF str = <<>> THEN str
    ELSE IF Head(str) = " " THEN Trim(Tail(str))
    ELSE IF str[Len(str)] = " " THEN Trim(SubSeq(str, 1, Len(str) - 1))
    ELSE str

\* String.prototype.split(sep) for a one-character separator
RECURSIVE Split(_, _)
Split(str, sep) ==
    IF \A i \in 1..Len(str) : str[i] # sep
       THEN <<str>>
       ELSE LET k == CHOOSE i \in 1..Len(str) :
                        str[i] = sep /\ \A j \in 1..(i - 1) : str[j] # sep
            IN  <<SubSeq(str, 1, k - 1)>> \o Split(SubSeq(str, k + 1, Len(str)), sep)

\* const [authType, authValue] = config.authHeader.split(':').map(s => s.trim());
\* the request is sent with headers {[authType]: authValue}
RequestAuth(header) ==
    LET parts == Split(header, ":")
    IN  [name |-> Trim(parts[1]),
         value |-> IF Len(parts) >= 2 THEN Trim(parts[2]) ELSE <<>>]

\* profileNameList of assignBuilders: profileName.split(',').map(p => p.trim());
\* the startTime-parameter variant sends profileName as it is
profileNameList ==
    IF variant = "profiles"
       THEN [i \in 1..Len(SplitComma(profileName)) |-> Trim(SplitComma(profileName)[i])]
       ELSE <<profileName>>

nProfiles == Len(profileNameList)

\* the profile names the text of an assignBuilders error carries:
\*   `TIMEOUT: Profile ${profileName} ...`          the profileName argument
\*   'Failed to get builders for input profile'     a fixed text, no name
ErrorProfiles(msg) ==
    IF msg = "TIMEOUT" THEN <<profileName>>
    ELSE <<>>

\* the deadline start assignBuilders measures against
AssignStart == IF variant = "single" THEN startTime ELSE globalStartTime

\* mutant of AB_Timeout: one deadline start is kept across all profiles
AB_TimeoutKeepsDeadline ==
    /\ pc = "ab_check"
    /\ now - AssignStart >= timeout
    /\ elapsedTime' = now - AssignStart
    /\ IF variant = "single"
          THEN /\ Fail("TIMEOUT")
               /\ UNCHANGED <<globalStartTime, profIdx>>
          ELSE /\ globalStartTime' = globalStartTime
               /\ IF profIdx < nProfiles
                     THEN profIdx' = profIdx + 1 /\ pc' = "ab_check" /\ failMsg' = failMsg
                     ELSE Fail("FailedToGetBuilders") /\ profIdx' = profIdx
    /\ abTrace' = <<>>
    /\ UNCHANGED <<envVars, now, startTime, reqProfile, lastAssign, sleepAfter,
                   builders, setupVars, cleanupVars>>

\* loop top, elapsedTime >= timeout:
\*   single: throw timeoutError (isTimeout, rethrown by the catch)
\*   profiles: break; global.startTime = Date.now(); next profile, or throw after the last
AB_Timeout ==
    /\ pc = "ab_check"
    /\ now - AssignStart >= timeout
    /\ elapsedTime' = now - AssignStart
    /\ IF variant = "single"
          THEN /\ Fail("TIMEOUT")
               /\ UNCHANGED <<globalStartTime, profIdx>>
          ELSE /\ globalStartTime' = now
               /\ IF profIdx < nProfiles
                     THEN profIdx' = profIdx + 1 /\ pc' = "ab_check" /\ failMsg' = failMsg
                     ELSE Fail("FailedToGetBuilders") /\ profIdx' = profIdx
    /\ abTrace' = <<>>
    /\ UNCHANGED <<envVars, now, startTime, reqProfile, lastAssign, sleepAfter,
                   builders, setupVars, cleanupVars>>

\* loop top, elapsedTime < timeout: issue the assign request
AB_Request ==
    /\ pc = "ab_check"
    /\ now - AssignStart < timeout
    /\ elapsedTime' = now - AssignStart
    /\ reqProfile' = profileNameList[profIdx]
    /\ pc' = "ab_await"
    /\ abTrace' = Append(abTrace, "request")
    /\ UNCHANGED <<envVars, now, startTime, globalStartTime, profIdx, lastAssign,
                   sleepAfter, builders, setupVars, failMsg, cleanupVars>>

\* the catch block of the loop, entered at time t with a non-timeout error:
\*   single: timeout check, else warning and wait; profiles: warning and wait
AB_Catch(t, cls) ==
    IF variant = "single" /\ t - startTime >= timeout
       THEN Fail("TIMEOUT") /\ sleepAfter' = sleepAfter
       ELSE pc' = "ab_sleep" /\ sleepAfter' = cls /\ failMsg' = failMsg

\* mutant of AB_Retry: a retryable status is thrown like a fatal one and ends run()
AB_RetryAborts(cls) ==
    Fail("APIError") /\ sleepAfter' = sleepAfter

\* after a retryable status:
\*   single: if (elapsedTime + 10000 >= timeout) throw timeoutError; else wait
\*   profiles: wait
AB_Retry(cls) ==
    IF variant = "single" /\ elapsedTime + AssignWaitMs >= timeout
       THEN Fail("TIMEOUT") /\ sleepAfter' = sleepAfter
       ELSE pc' = "ab_sleep" /\ sleepAfter' = cls /\ failMsg' = failMsg

\* the awaited assign request settles
AB_Response ==
    /\ pc = "ab_await"
    /\ \E lat \in Latencies, o \in AssignOutcomes :
         /\ now' = now + lat
         /\ lastAssign' = AssignClass(o)
         /\ abTrace' = Append(abTrace, AssignStep(o))
         /\ CASE AssignStep(o) = "return" ->
                   /\ builders' = o.n
                   /\ pc' = "save"
                   /\ UNCHANGED <<sleepAfter, failMsg>>
              [] AssignStep(o) = "throw" ->
                   /\ AB_Catch(now + lat, AssignClass(o))
                   /\ builders' = builders
              [] AssignStep(o) = "retry" ->
                   /\ AB_Retry(AssignClass(o))
                   /\ builders' = builders
    /\ UNCHANGED <<envVars, startTime, globalStartTime, elapsedTime, profIdx,
                   reqProfile, setupVars, cleanupVars>>

\* mutant of AB_Wake: the wait grows with the number of waits already made
AB_WakeGrowing ==
    /\ pc = "ab_sleep"
    /\ now' = now + AssignWaitMs + PollWaitMs * Len(SelectSeq(abTrace, LAMBDA e : e = "sleep"))
    /\ pc' = "ab_check"
    /\ abTrace' = Append(abTrace, "sleep")
    /\ UNCHANGED <<envVars, startTime, globalStartTime, elapsedTime, profIdx, reqProfile,
                   lastAssign, sleepAfter, builders, setupVars, failMsg, cleanupVars>>

\* await new Promise(resolve => setTimeout(resolve, 10000))
AB_Wake ==
    /\ pc = "ab_sleep"
    /\ now' = now + AssignWaitMs
    /\ pc' = "ab_check"
    /\ abTrace' = Append(abTrace, "sleep")
    /\ UNCHANGED <<envVars, startTime, globalStartTime, elapsedTime, profIdx, reqProfile,
                   lastAssign, sleepAfter, builders, setupVars, failMsg, cleanupVars>>
\* ---------------------------------------------------- run(), after assign
\* const builderName = `builder-${uuidv4()}`: one name for the whole run
BuilderName == "builder-uuid"

\* mutant of BuildersState: every entry is given index 0
BuildersStateIndexZero(n) == [i \in 1..n |-> [id |-> i, index |-> 0]]

\* mutant of BuildersState: only the first builder instance is recorded
BuildersStateFirstOnly(n) == [i \in 1..1 |-> [id |-> i, index |-> i - 1]]

\* buildersState.builders for n builder instances: [{id, index}], ids 1..n
BuildersState(n) == [i \in 1..n |-> [id |-> i, index |-> i - 1]]

\* assignBuilders has returned (its locals are gone with it);
\* buildersState = {builderName, builders: [{id, index}]}; core.saveState(...);
\* startTime = Date.now(); then the setup loop starts with i = 0
Run_SaveState ==
    /\ pc = "save"
    /\ savedState' = BuildersState(builders)
    /\ savedName' = BuilderName
    /\ startTime' = now
    /\ idx' = 1
    /\ pc' = "wd_check"
    /\ elapsedTime' = 0
    /\ sleepAfter' = "none"
    /\ abTrace' = <<>>
    /\ UNCHANGED <<envVars, now, globalStartTime, profIdx, reqProfile,
                   lastAssign, builders, lastDetails, detailsHttp, readyIds,
                   certs, registered, outputs, builderPlatforms, failMsg, cleanupVars>>

\* elapsed > timeout at the top of waitForBuilderDetails' loop
WaitExpired(elapsed, limit) == elapsed > limit

\* waitForBuilderDetails, loop top: the deadline passed, throw
WD_Timeout ==
    /\ pc = "wd_check"
    /\ WaitExpired(now - startTime, timeout)
    /\ Fail("GlobalTimeout")
    /\ UNCHANGED <<envVars, now, assignVars, setupVars, cleanupVars>>

\* waitForBuilderDetails, loop top: issue getBuilderDetails
WD_Request ==
    /\ pc = "wd_check"
    /\ ~WaitExpired(now - startTime, timeout)
    /\ pc' = "wd_await"
    /\ UNCHANGED <<envVars, now, assignVars, setupVars, failMsg, cleanupVars>>

\* the class of a get-details outcome, recorded for the properties
DetailsClass(o) ==
    IF o.kind # "json" THEN o.kind
    ELSE IF o.status = "ready"
            THEN (IF o.host = "absent" THEN "ready_nohost"
                  ELSE IF o.host = "" THEN "ready_emptyhost"
                  ELSE "ready")
    ELSE IF o.status = "failed" THEN "failed"
    ELSE "pending"

\* mutant of WD_Failed: status failed is waited out like a pending status
WD_FailedPollsAgain ==
    /\ pc' = "wd_sleep"
    /\ failMsg' = failMsg
    /\ readyIds' = readyIds

\* details.status === 'failed': throw "Builder ... failed to initialize"
WD_Failed ==
    /\ Fail("FailedToInitialize")
    /\ readyIds' = readyIds

\* mutant of WD_HostMissing: ready without a host is waited out like pending
WD_HostMissingPollsAgain ==
    /\ pc' = "wd_sleep"
    /\ failMsg' = failMsg
    /\ readyIds' = readyIds

\* details.status === 'ready' and !details.metadata?.host: throw
WD_HostMissing ==
    /\ Fail("HostMissing")
    /\ readyIds' = readyIds

\* details.status === 'ready' with a host: return details to setupBuildxNode
WD_Ready ==
    /\ readyIds' = readyIds \cup {idx}
    /\ pc' = "certs"
    /\ failMsg' = failMsg

\* mutant of WD_Pending: a status that is neither ready nor failed ends the poller
WD_PendingGivesUp ==
    /\ Fail("UnknownStatus")
    /\ readyIds' = readyIds

\* mutant of WD_Pending: an error status of the response ends the poller
WD_PendingChecksHttp ==
    /\ IF detailsHttp' >= 400 THEN Fail("HttpError") ELSE pc' = "wd_sleep" /\ failMsg' = failMsg
    /\ readyIds' = readyIds

\* any other details.status: info, then the 2 s wait at the end of the loop body
WD_Pending ==
    /\ pc' = "wd_sleep"
    /\ failMsg' = failMsg
    /\ readyIds' = readyIds

\* getBuilderDetails settles: it rejects (transport error) or JSON.parse throws,
\* both caught in the poller; else the poller branches on details.status
WD_Response ==
    /\ pc = "wd_await"
    /\ \E lat \in Latencies, o \in DetailsOutcomes :
         /\ now' = now + lat
         /\ lastDetails' = DetailsClass(o)
         /\ detailsHttp' = IF DetailsClass(o) = "pending" THEN o.http ELSE 0
         /\ CASE o.kind # "json" ->
                   pc' = "wd_catch_sleep" /\ UNCHANGED <<failMsg, readyIds>>
              [] o.kind = "json" /\ o.status = "ready" /\ HasHost(o) ->
                   WD_Ready
              [] o.kind = "json" /\ o.status = "ready" /\ ~HasHost(o) ->
                   WD_HostMissing
              [] o.kind = "json" /\ o.status = "failed" ->
                   WD_Failed
              [] OTHER ->
                   WD_Pending
    /\ UNCHANGED <<envVars, assignVars, savedState, savedName, idx, certs,
                   registered, outputs, builderPlatforms, cleanupVars>>

\* the wait inside the catch block, then the statements after the try/catch:
\* details is still undefined, so reading details.status throws a TypeError,
\* which leaves the poller and reaches run()'s catch
WD_CatchWake ==
    /\ pc = "wd_catch_sleep"
    /\ now' = now + PollWaitMs
    /\ Fail("TypeError")
    /\ detailsHttp' = 0
    /\ UNCHANGED <<envVars, assignVars, savedState, savedName, idx, lastDetails, readyIds, certs, registered,
                   outputs, builderPlatforms, cleanupVars>>

\* status neither ready nor failed: wait 2 s and poll again
WD_Wake ==
    /\ pc = "wd_sleep"
    /\ now' = now + PollWaitMs
    /\ pc' = "wd_check"
    /\ detailsHttp' = 0
    /\ UNCHANGED <<envVars, assignVars, savedState, savedName, idx, lastDetails, readyIds, certs, registered,
                   outputs, builderPlatforms, failMsg, cleanupVars>>

\* String.prototype.includes for one piece
Includes(str, piece) == \E i \in 1..Len(str) : str[i] = piece

\* Array.prototype.join
RECURSIVE Join(_, _)
Join(parts, sep) ==
    IF Len(parts) = 0 THEN <<>>
    ELSE IF Len(parts) = 1 THEN parts[1]
    ELSE parts[1] \o <<sep>> \o Join(Tail(parts), sep)

\* if (builderPlatforms && !builderPlatforms.includes('linux/'))
\*     builderPlatforms = builderPlatforms.split(',').map(p => `linux/${p.trim()}`).join(',')
FormatPlatforms(str) ==
    LET parts == Split(str, ",")
    IN  IF str # <<>> /\ ~Includes(str, "linux/")
           THEN Join([i \in 1..Len(parts) |-> <<"linux/">> \o Trim(parts[i])], ",")
           ELSE str

\* mutant of AfterCerts: the create command is run whatever the input says
AfterCertsAlwaysBuildx(flag) == "buildx"

\* if (shouldSetupBuildx) { ... exec.exec('docker', baseCmd) }, else straight
\* to the setOutput calls
AfterCerts(flag) == IF flag THEN "buildx" ELSE "outputs"

\* mutant of SB_WriteCerts: a failed write removes the files written so far
SB_WriteCertsRollsBack ==
    /\ pc = "certs"
    /\ builderPlatforms' = FormatPlatforms(arch)
    /\ \E k \in 0..3 :
         IF k < 3
            THEN Fail("WriteError") /\ certs' = [m \in Machines |-> 0]
            ELSE /\ certs' = [certs EXCEPT ![idx] = k]
                 /\ pc' = AfterCerts(shouldSetupBuildx)
                 /\ failMsg' = failMsg
    /\ detailsHttp' = 0
    /\ UNCHANGED <<envVars, now, assignVars, savedState, savedName, idx,
                   lastDetails, readyIds, registered, outputs, cleanupVars>>

\* mutant of SB_WriteCerts: a failed write is ignored
SB_WriteCertsIgnoresFailure ==
    /\ pc = "certs"
    /\ builderPlatforms' = FormatPlatforms(arch)
    /\ \E k \in 0..3 :
         /\ certs' = [certs EXCEPT ![idx] = k]
         /\ pc' = AfterCerts(shouldSetupBuildx)
         /\ failMsg' = failMsg
    /\ detailsHttp' = 0
    /\ UNCHANGED <<envVars, now, assignVars, savedState, savedName, idx,
                   lastDetails, readyIds, registered, outputs, cleanupVars>>

\* setupBuildxNode after waitForBuilderDetails: builderPlatforms is computed,
\* then mkdir and the three writeFile calls; a failing call throws
SB_WriteCerts ==
    /\ pc = "certs"
    /\ builderPlatforms' = FormatPlatforms(arch)
    /\ \E k \in 0..3 :
         /\ certs' = [certs EXCEPT ![idx] = k]
         /\ IF k < 3
               THEN Fail("WriteError")
               ELSE /\ pc' = AfterCerts(shouldSetupBuildx)
                    /\ failMsg' = failMsg
    /\ detailsHttp' = 0
    /\ UNCHANGED <<envVars, now, assignVars, savedState, savedName, idx,
                   lastDetails, readyIds, registered, outputs, cleanupVars>>

\* if (index > 0) baseCmd.splice(2, 0, '--append')
UseAppend(index) == index > 0

\* the create command of setupBuildxNode(index, builderId, builderName, ...):
\* --name builderName --node builderId, with --append when index > 0
CreateCmd(index, builderId) ==
    [name |-> BuilderName, id |-> builderId, append |-> UseAppend(index),
     platform |-> builderPlatforms]

\* mutant of SB_Buildx: a failed create command is ignored and setup goes on
SB_BuildxIgnoresFailure ==
    /\ pc = "buildx"
    /\ \/ /\ registered' = Append(registered, CreateCmd(idx - 1, idx))
          /\ pc' = "outputs"
          /\ failMsg' = failMsg
       \/ /\ pc' = "outputs"
          /\ failMsg' = failMsg
          /\ registered' = registered
    /\ UNCHANGED <<envVars, now, assignVars, savedState, savedName, idx,
                   lastDetails, detailsHttp, readyIds, certs, outputs, builderPlatforms, cleanupVars>>

\* await exec.exec('docker', baseCmd): the command succeeds, or exec rejects and
\* the error leaves setupBuildxNode and reaches run()'s catch
SB_Buildx ==
    /\ pc = "buildx"
    /\ \/ /\ registered' = Append(registered, CreateCmd(idx - 1, idx))
          /\ pc' = "outputs"
          /\ failMsg' = failMsg
       \/ /\ Fail("ExecError")
          /\ registered' = registered
    /\ UNCHANGED <<envVars, now, assignVars, savedState, savedName, idx,
                   lastDetails, detailsHttp, readyIds, certs, outputs, builderPlatforms, cleanupVars>>

\* the five outputs of a node: docker-builder-node-<index>-<field>
OutputFields == {"endpoint", "platforms", "cacert", "cert", "key"}

\* mutant of NodeOutputs: the client key is not exposed
NodeOutputsNoKey(index, id) ==
    [index : {index}, field : OutputFields \ {"key"}, from : {id}]

\* core.setOutput(`docker-builder-node-${index}-...`, ...) x 5, each value
\* taken from the details of machine builderId
NodeOutputs(index, id) == [index : {index}, field : OutputFields, from : {id}]

\* mutant of SB_Outputs: run() returns after the first machine's outputs
SB_OutputsFirstOnly ==
    /\ pc = "outputs"
    /\ outputs' = outputs \cup NodeOutputs(idx - 1, idx)
    /\ idx' = idx
    /\ pc' = "done"
    /\ UNCHANGED <<envVars, now, assignVars, savedState, savedName, lastDetails, detailsHttp,
                   readyIds, certs, registered, builderPlatforms, failMsg, cleanupVars>>

\* mutant of SB_Outputs: the deadline is restarted for the next machine
SB_OutputsRestartsDeadline ==
    /\ pc = "outputs"
    /\ outputs' = outputs \cup NodeOutputs(idx - 1, idx)
    /\ IF idx < builders
          THEN idx' = idx + 1 /\ pc' = "wd_check" /\ startTime' = now
          ELSE idx' = idx /\ pc' = "done" /\ startTime' = startTime
    /\ UNCHANGED <<envVars, now, globalStartTime, elapsedTime, profIdx, reqProfile,
                   lastAssign, sleepAfter, abTrace, builders, savedState, savedName, lastDetails, detailsHttp,
                   readyIds, certs, registered, builderPlatforms, failMsg, cleanupVars>>

\* the five core.setOutput calls, then the next iteration of run()'s loop
SB_Outputs ==
    /\ pc = "outputs"
    /\ outputs' = outputs \cup NodeOutputs(idx - 1, idx)
    /\ IF idx < builders
          THEN idx' = idx + 1 /\ pc' = "wd_check"
          ELSE idx' = idx /\ pc' = "done"
    /\ UNCHANGED <<envVars, now, assignVars, savedState, savedName, lastDetails, detailsHttp,
                   readyIds, certs, registered, builderPlatforms, failMsg, cleanupVars>>
\* ------------------------------------------------------- teardownBuilder
\* a teardown outcome: a transport error, or an HTTP status with a body that is
\* unparseable ("garbage"), JSON without a statusCode field ("json"), or JSON
\* carrying its own statusCode field ("json_sc", the field's value in sc)
TeardownTransportFailure == [net |-> FALSE, status |-> 0, body |-> "none", sc |-> 0]

TeardownOutcomes ==
    {TeardownTransportFailure}
    \cup [net : {TRUE}, status : TeardownStatuses, body : {"garbage", "json"}, sc : {0}]
    \cup [net : {TRUE}, status : TeardownStatuses, body : {"json_sc"}, sc : {200, 503}]

\* mutant of teardownBuilder: a transport failure is returned without a status
teardownBuilderNoStatus(o) ==
    IF ~o.net THEN 0
    ELSE IF o.body = "json_sc" THEN o.sc
    ELSE o.status

\* the statusCode of the object teardownBuilder returns:
\*   catch (transport error)       -> 500
\*   {statusCode, ...parsedData}   -> parsedData.statusCode when the body has one
teardownBuilder(o) ==
    IF ~o.net THEN 500
    ELSE IF o.body = "json_sc" THEN o.sc
    ELSE o.status

\* response.statusCode >= 500 && response.statusCode < 600
IsServerError(code) == code >= 500 /\ code < 600

\* ------------------------------------------------------------- cleanup()
\* mutant of CL_Warn: core.setFailed in place of core.warning
CL_WarnSetsFailed ==
    /\ warned' = TRUE
    /\ failMsg' = "CleanupFailed"

\* core.warning(...): logs, and leaves the step's outcome alone
CL_Warn ==
    /\ warned' = TRUE
    /\ failMsg' = failMsg

\* the outer catch of cleanup(): a warning, and cleanup returns
CL_OuterCatch ==
    /\ CL_Warn
    /\ pcC' = "done"

\* mutant of HasState: the record is taken to be there whatever getState returns
HasStateAlways(state) == TRUE

\* buildersStateJson is truthy: core.getState returned a record
HasState(state) == state # <<>>

\* cleanup(): core.getState; no state: info and return.  Else JSON.parse and
\* new WarpBuildConfig(); a throw lands in the outer catch.
CL_Begin ==
    IF ~HasState(savedState)
       THEN pcC' = "done" /\ warned' = FALSE /\ failMsg' = failMsg
       ELSE IF ConfigThrows(envToken, apiKey)
               THEN CL_OuterCatch
               ELSE pcC' = "rm" /\ warned' = FALSE /\ failMsg' = failMsg

\* cleanup.js starts as a process of its own (the post step) once main.js has
\* ended: main's memory is gone, the saved state, the step's outcome and what
\* main did to the machine (files, buildx, outputs) remain.
CL_Start ==
    /\ pc = "done"
    /\ pcC = "idle"
    /\ clRun' = 1
    /\ now' = 0
    /\ startTime' = 0
    /\ globalStartTime' = 0
    /\ elapsedTime' = 0
    /\ profIdx' = 1
    /\ reqProfile' = <<>>
    /\ lastAssign' = "none"
    /\ sleepAfter' = "none"
    /\ abTrace' = <<>>
    /\ lastDetails' = "none"
    /\ detailsHttp' = 0
    /\ builderPlatforms' = <<>>
    /\ CL_Begin
    /\ UNCHANGED <<envVars, pc, builders, savedState, savedName, idx, readyIds, certs,
                   registered, outputs, clIdx, clAttempt, tdReqs, tornDown, lastTd, rmDone,
                   rmName>>

\* cleanup.js is run once more on the same record (a retried post step): a new
\* process, nothing of the earlier run's memory is left
CL_Again ==
    /\ pcC = "done"
    /\ clRun >= 1
    /\ clRun < MaxCleanupRuns
    /\ clRun' = clRun + 1
    /\ clIdx' = 0
    /\ clAttempt' = 0
    /\ tdReqs' = 0
    /\ tornDown' = {}
    /\ lastTd' = NoAttempt
    /\ rmDone' = "none"
    /\ rmName' = "none"
    /\ CL_Begin
    /\ UNCHANGED <<envVars, now, pc, assignVars, setupVars>>

\* docker buildx rm builderName, with the builderName of the record, in its
\* own try/catch; then the loop starts
CL_BuildxRm ==
    /\ pcC = "rm"
    /\ rmName' = savedName
    /\ \/ rmDone' = "ok" /\ UNCHANGED <<warned, failMsg>>
       \/ rmDone' = "failed" /\ CL_Warn
    /\ clIdx' = 1
    /\ clAttempt' = 1
    /\ pcC' = "td_req"
    /\ UNCHANGED <<envVars, now, pc, assignVars, setupVars, clRun, tdReqs,
                   tornDown, lastTd>>

\* await teardownBuilder(config, builder.id): the DELETE request goes out
CL_TeardownRequest ==
    /\ pcC = "td_req"
    /\ tdReqs' = IF clAttempt = 1 THEN 1 ELSE tdReqs + 1
    /\ tornDown' = tornDown \cup {savedState[clIdx].id}
    /\ pcC' = "td_await"
    /\ UNCHANGED <<envVars, now, pc, assignVars, setupVars, failMsg,
                   clRun, clIdx, clAttempt, lastTd, rmDone, rmName, warned>>

\* whether cleanup calls teardownBuilder again after the statusCode of the
\* given attempt (the retry is a single if, not a loop)
CL_ShouldRetry(code, attempt) == attempt = 1 /\ IsServerError(code)

\* mutant of CL_Advance: a teardown that did not succeed ends the loop
CL_AdvanceStopsOnFailure(code) ==
    IF clIdx < Len(savedState) /\ code >= 200 /\ code < 300
       THEN clIdx' = clIdx + 1 /\ clAttempt' = 1 /\ pcC' = "td_req"
       ELSE clIdx' = clIdx /\ clAttempt' = clAttempt /\ pcC' = "done"

\* the for loop's next step once the builder whose last statusCode was `code`
\* is finished: the next builder, whatever the code
CL_Advance(code) ==
    IF clIdx < Len(savedState)
       THEN clIdx' = clIdx + 1 /\ clAttempt' = 1 /\ pcC' = "td_req"
       ELSE clIdx' = clIdx /\ clAttempt' = clAttempt /\ pcC' = "done"

\* teardownBuilder returns; 5xx on the first attempt: wait 1 s and call again;
\* else 2xx: info, anything else: warning; then the next builder
CL_TeardownResponse ==
    /\ pcC = "td_await"
    /\ \E o \in TeardownOutcomes :
         /\ lastTd' = IF o.net THEN o.status ELSE TransportError
         /\ IF CL_ShouldRetry(teardownBuilder(o), clAttempt)
               THEN /\ pcC' = "td_delay"
                    /\ UNCHANGED <<clIdx, clAttempt, warned, failMsg>>
               ELSE /\ CL_Advance(teardownBuilder(o))
                    /\ IF teardownBuilder(o) >= 200 /\ teardownBuilder(o) < 300
                          THEN UNCHANGED <<warned, failMsg>>
                          ELSE CL_Warn
    /\ UNCHANGED <<envVars, now, pc, assignVars, setupVars, clRun, tdReqs,
                   tornDown, rmDone, rmName>>

\* setTimeout(resolve, 1000), then the second teardownBuilder call
CL_RetryWake ==
    /\ pcC = "td_delay"
    /\ clAttempt' = clAttempt + 1
    /\ pcC' = "td_req"
    /\ UNCHANGED <<envVars, now, pc, assignVars, setupVars, failMsg,
                   clRun, clIdx, tdReqs, tornDown, lastTd, rmDone, rmName, warned>>

\* ------------------------------------------------------------------ Next
Next ==
    \/ Run_Start
    \/ AB_Timeout
    \/ AB_Request
    \/ AB_Response
    \/ AB_Wake
    \/ Run_SaveState
    \/ WD_Timeout
    \/ WD_Request
    \/ WD_Response
    \/ WD_CatchWake
    \/ WD_Wake
    \/ SB_WriteCerts
    \/ SB_Buildx
    \/ SB_Outputs
    \/ CL_Start
    \/ CL_Again
    \/ CL_BuildxRm
    \/ CL_TeardownRequest
    \/ CL_TeardownResponse
    \/ CL_RetryWake

Spec == Init /\ [][Next]_vars

\* The Node.js event loop keeps running while a timer or a request is pending:
\* a setTimeout fires, and, in the runs of LiveSpec, every awaited request
\* settles (with a response or with the socket's error), so an enabled step is
\* eventually taken.
LiveSpec == Init /\ [][Next]_vars /\ WF_vars(Next)

\* the steps the program takes by itself: everything but the settling of a
\* request, which is the peer's doing
OwnNext ==
    \/ Run_Start
    \/ AB_Timeout
    \/ AB_Request
    \/ AB_Wake
    \/ Run_SaveState
    \/ WD_Timeout
    \/ WD_Request
    \/ WD_CatchWake
    \/ WD_Wake
    \/ SB_WriteCerts
    \/ SB_Buildx
    \/ SB_Outputs
    \/ CL_Start
    \/ CL_Again
    \/ CL_BuildxRm
    \/ CL_TeardownRequest
    \/ CL_RetryWake

\* makeWarpBuildRequest sets no timeout on https.request and registers only
\* 'end' and 'error': its promise settles when the peer answers or the socket
\* fails, and not otherwise. Here only the program's own steps are certain to
\* happen; a request may stay in flight for ever.
UnansweredSpec == Init /\ [][Next]_vars /\ WF_vars(OwnNext)

\* the same program started over every credential pair
AuthSpec == AuthInit /\ [][Next]_vars

\* the same program started over every arch string
PlatSpec == PlatInit /\ [][Next]_vars

\* the runs of one profile whose timeout input leaves room for two backoff
\* waits of assignBuilders before the deadline
RetryInit ==
    /\ variant \in Variants
    /\ envToken = <<>>
    /\ apiKey = <<"k">>
    /\ shouldSetupBuildx = TRUE
    /\ timeout = RetryTimeoutTicks * Tick
    /\ profileName = ProfileInput(1)
    /\ arch = DefaultArch
    /\ InitState

\* the same program started with the longer timeout
RetrySpec == RetryInit /\ [][Next]_vars

\* ------------------------------------------- setup.sh: the setup loop
\* The composite variant of the action runs setup.sh. Its setup phase is
\* modelled from the point where the assign loop has ended with BUILDER_COUNT
\* instances and BUILDER_NAME is chosen; `exit 1` is recorded in failMsg.
\* what the script's setup phase never touches
shFrame == <<envVars, globalStartTime, elapsedTime, profIdx, reqProfile, lastAssign,
             sleepAfter, abTrace, builders, savedState, savedName, cleanupVars>>

\* the script after the assign loop: SCRIPT_START_TIME = 0, the assign phase
\* took one request; setup_buildx_node 0 enters wait_for_builder_details
ShInit ==
    /\ variant = "shell"
    /\ envToken = <<>>
    /\ apiKey = <<"k">>
    /\ shouldSetupBuildx \in BOOLEAN
    /\ timeout \in Timeouts
    /\ profileName = ProfileInput(1)
    /\ arch = DefaultArch
    /\ now \in Latencies
    /\ pc = "sh_check"
    /\ startTime = now
    /\ globalStartTime = 0
    /\ elapsedTime = 0
    /\ profIdx = 1
    /\ reqProfile = ProfileInput(1)
    /\ lastAssign = "ok"
    /\ sleepAfter = "none"
    /\ abTrace = <<>>
    /\ builders \in 1..MaxBuilders
    /\ savedState = <<>>
    /\ savedName = "none"
    /\ idx = 1
    /\ lastDetails = "none"
    /\ detailsHttp = 0
    /\ readyIds = {}
    /\ certs = [m \in Machines |-> 0]
    /\ registered = <<>>
    /\ outputs = {}
    /\ builderPlatforms = <<>>
    /\ failMsg = "none"
    /\ pcC = "idle"
    /\ clRun = 0
    /\ clIdx = 0
    /\ clAttempt = 0
    /\ tdReqs = 0
    /\ tornDown = {}
    /\ lastTd = NoAttempt
    /\ rmDone = "none"
    /\ rmName = "none"
    /\ warned = FALSE

\* check_global_timeout, and elapsed > TIMEOUT of wait_for_builder_details
ShExpired == now - globalStartTime > timeout \/ now - startTime > timeout

\* wait_for_builder_details, loop top: a deadline has passed, exit 1
SH_Timeout ==
    /\ pc = "sh_check"
    /\ ShExpired
    /\ Fail("Exit1")
    /\ UNCHANGED <<shFrame, now, startTime, setupVars>>

\* wait_for_builder_details: curl, then jq on the response. An empty or invalid
\* body: sleep 2 and continue. status ready: exit 1 when host is empty or
\* null, else return. status failed: exit 1. Any other status: sleep 2.
SH_Curl ==
    /\ pc = "sh_check"
    /\ ~ShExpired
    /\ \E lat \in Latencies, o \in DetailsOutcomes :
         /\ now' = now + lat
         /\ lastDetails' = DetailsClass(o)
         /\ detailsHttp' = IF DetailsClass(o) = "pending" THEN o.http ELSE 0
         /\ CASE o.kind # "json" ->
                   pc' = "sh_sleep" /\ UNCHANGED <<failMsg, readyIds>>
              [] o.kind = "json" /\ o.status = "ready" /\ HasHost(o) ->
                   /\ readyIds' = readyIds \cup {idx}
                   /\ pc' = "sh_certs"
                   /\ failMsg' = failMsg
              [] o.kind = "json" /\ o.status = "ready" /\ ~HasHost(o) ->
                   Fail("Exit1") /\ readyIds' = readyIds
              [] o.kind = "json" /\ o.status = "failed" ->
                   Fail("Exit1") /\ readyIds' = readyIds
              [] OTHER ->
                   pc' = "sh_sleep" /\ UNCHANGED <<failMsg, readyIds>>
    /\ UNCHANGED <<shFrame, startTime, savedState, savedName, idx, certs, registered, outputs,
                   builderPlatforms>>

\* sleep 2, then the next iteration of the polling loop
SH_Wake ==
    /\ pc = "sh_sleep"
    /\ now' = now + PollWaitMs
    /\ pc' = "sh_check"
    /\ detailsHttp' = 0
    /\ UNCHANGED <<shFrame, startTime, savedState, savedName, idx, lastDetails, readyIds, certs, registered,
                   outputs, builderPlatforms, failMsg>>

\* if [ -n "$BUILDER_PLATFORMS" ] && [[ "$BUILDER_PLATFORMS" != *"linux/"* ]]:
\*     sed 's/\([^,]*\)/linux\/\1/g' prefixes every run of non-comma characters
ShFormatPlatforms(str) ==
    LET parts == Split(str, ",")
    IN  IF str # <<>> /\ ~Includes(str, "linux/")
           THEN Join([i \in 1..Len(parts) |-> <<"linux/">> \o parts[i]], ",")
           ELSE str

\* setup_buildx_node: BUILDER_PLATFORMS is formatted, then mkdir -p, three echo > file, then the [ -s file ] checks:
\* fewer than three non-empty files is exit 1
SH_WriteCerts ==
    /\ pc = "sh_certs"
    /\ builderPlatforms' = ShFormatPlatforms(arch)
    /\ \E k \in 0..3 :
         /\ certs' = [certs EXCEPT ![idx] = k]
         /\ IF k < 3
               THEN Fail("Exit1")
               ELSE /\ pc' = IF shouldSetupBuildx THEN "sh_create" ELSE "sh_outputs"
                    /\ failMsg' = failMsg
    /\ UNCHANGED <<shFrame, now, startTime, savedState, savedName, idx, lastDetails, detailsHttp, readyIds,
                   registered, outputs>>

\* docker buildx create --name "$BUILDER_NAME" --node "$CURRENT_ID" ...: the
\* same command line for every index, never with --append; under set -e a
\* failing command ends the script
SH_Create ==
    /\ pc = "sh_create"
    /\ \/ /\ registered' = Append(registered,
                                 [name |-> BuilderName, id |-> idx, append |-> FALSE,
                                  platform |-> builderPlatforms])
          /\ pc' = "sh_outputs"
          /\ failMsg' = failMsg
       \/ /\ Fail("Exit1")
          /\ registered' = registered
    /\ UNCHANGED <<shFrame, now, startTime, savedState, savedName, idx, lastDetails, detailsHttp, readyIds,
                   certs, outputs, builderPlatforms>>

\* the five outputs written to $GITHUB_OUTPUT, then the next iteration of the
\* for loop (whose wait_for_builder_details takes a new start_time), or the
\* end of the loop
SH_Outputs ==
    /\ pc = "sh_outputs"
    /\ outputs' = outputs \cup NodeOutputs(idx - 1, idx)
    /\ IF idx < builders
          THEN idx' = idx + 1 /\ pc' = "sh_check" /\ startTime' = now
          ELSE /\ idx' = idx
               /\ pc' = IF shouldSetupBuildx THEN "sh_use" ELSE "done"
               /\ startTime' = startTime
    /\ UNCHANGED <<shFrame, now, savedState, savedName, lastDetails, detailsHttp, readyIds, certs,
                   registered, builderPlatforms, failMsg>>

\* docker buildx use "$BUILDER_NAME", the last command of the setup phase
SH_Use ==
    /\ pc = "sh_use"
    /\ \/ pc' = "done" /\ failMsg' = failMsg
       \/ Fail("Exit1")
    /\ UNCHANGED <<shFrame, now, startTime, setupVars>>

ShNext ==
    \/ SH_Timeout
    \/ SH_Curl
    \/ SH_Wake
    \/ SH_WriteCerts
    \/ SH_Create
    \/ SH_Outputs
    \/ SH_Use

ShellSpec == ShInit /\ [][ShNext]_vars
\* =================================================================
\* Properties
\* =================================================================
IsRetryableClass(c) == c \in {"retryable", "retryable_badbody"}
SavedIds == {savedState[i].id : i \in 1..Len(savedState)}
ReadinessFailures == {"FailedToInitialize", "HostMissing", "GlobalTimeout"}

\* C1 (as claimed): once the last assign response is fatal (a parsed response
\* whose status is neither 409, 429, 5xx nor a 2xx with at least one instance),
\* the acquisition loop has aborted: run() has ended, no backoff sleep was
\* started and the profile is not requested again.
C1_FatalAbortsAtOnce ==
    lastAssign = "fatal" => pc = "done"

\* C2 (as claimed): an assign response with status 409, 429 or 5xx that arrives
\* while the deadline has not expired is always followed by the fixed wait (the
\* loop does not abort).
C2_RetryableAlwaysWaits ==
    [][ ( /\ pc = "ab_await"
          /\ IsRetryableClass(lastAssign')
          /\ now' - AssignStart < timeout )
        => pc' = "ab_sleep" ]_vars

\* C2 (amended): a 409/429/5xx assign response never ends the loop with a
\* generic failure: the loop starts the fixed 10 s wait for the same profile,
\* except that the single-profile variant may report Timeout at once, and does
\* so only when the wait would reach the deadline (elapsed + 10 s >= budget);
\* the wait lasts the fixed interval and leads to the deadline check, and a
\* deadline check that finds the deadline not expired issues the next assign
\* request for the same profile.
C2_RetryableWaitsOrTimesOut ==
    [][ /\ ( pc = "ab_await" /\ IsRetryableClass(lastAssign') )
           => \/ pc' = "ab_sleep" /\ profIdx' = profIdx /\ failMsg' = "none"
              \/ /\ variant = "single"
                 /\ pc' = "done"
                 /\ failMsg' = "TIMEOUT"
                 /\ now' - startTime + AssignWaitMs >= timeout
        /\ ( pc = "ab_sleep" /\ IsRetryableClass(sleepAfter) )
           => pc' = "ab_check" /\ now' = now + AssignWaitMs /\ profIdx' = profIdx
        /\ ( pc = "ab_check" /\ now - AssignStart < timeout )
           => pc' = "ab_await" /\ profIdx' = profIdx /\ now' = now
      ]_vars

\* C2 witness: a second assign request is in flight after a retryable response
\* and its wait.
C2_Witness ==
    /\ pc = "ab_await"
    /\ lastAssign = "retryable"
    /\ now - AssignStart >= AssignWaitMs

\* C3 (as claimed): when the last get-details attempt met a transport error or
\* an unparseable body, the poller has not ended the operation unless the
\* deadline expired (the only failure that may follow is the timeout).
C3_TransientKeepsPolling ==
    ( pc = "done" /\ lastDetails \in {"transport", "unparseable"} )
        => failMsg = "GlobalTimeout"

\* C4 (as claimed): while an assign or a get-details request is in flight, the
\* elapsed time at which it was issued is below the budget.
C4_NoRequestOnceExpired ==
    /\ pc = "ab_await" => now - AssignStart < timeout
    /\ pc = "wd_await" => now - startTime < timeout

\* C5 (as claimed): a backoff sleep starts only while elapsed < budget and ends
\* no later than the budget.
C5_NoSleepPastBudget ==
    /\ pc = "ab_sleep"
          => /\ now - AssignStart < timeout
             /\ now + AssignWaitMs - AssignStart <= timeout
    /\ pc \in {"wd_sleep", "wd_catch_sleep"}
          => /\ now - startTime < timeout
             /\ now + PollWaitMs - startTime <= timeout

\* C6 (as claimed): one budget bounds acquisition and readiness together: a
\* get-details request is never issued later than the budget after the start
\* of run() (stated for run() with the assignBuilders it passes startTime to).
C6_SingleBudget ==
    ( variant = "single" /\ pc = "wd_await" ) => now - RunStart <= timeout

\* C7: when cleanup has ended on a persisted record, a teardown request was
\* issued for every machine id of the record.
C7_EveryMachineTornDown ==
    ( pcC = "done" /\ savedState # <<>> ) => tornDown = SavedIds

\* C7 witness: the teardown of the second machine is requested although buildx
\* rm failed and the teardown of the first machine ended in a transport failure.
C7_Witness ==
    /\ pcC = "td_await"
    /\ clIdx = 2
    /\ rmDone = "failed"
    /\ lastTd = TransportError
    /\ tornDown = {1, 2}

\* C8 (as claimed): at most two teardown requests per machine, and a second one
\* exactly when the first response has a 5xx status: the retry delay is entered
\* only after a 5xx response, and a machine is left after one request only if
\* the response to it was not 5xx.
C8_RetryIffServerError ==
    /\ tdReqs <= 2
    /\ ( pcC = "td_delay" /\ lastTd # TransportError ) => IsServerError(lastTd)
    /\ ( pcC \in {"td_req", "done"} /\ clAttempt = 1 /\ tdReqs = 1 )
          => ~IsServerError(lastTd)

\* C9: no step of cleanup changes the outcome the main phase left (it never
\* marks the run failed); its failures only set the warning flag.
C9_CleanupNeverFails ==
    [][ pc = "done" => failMsg' = failMsg ]_vars

\* C9 witness: cleanup ended after a successful run although buildx rm failed
\* and the last teardown got a 404.
C9_Witness ==
    /\ pcC = "done"
    /\ failMsg = "none"
    /\ rmDone = "failed"
    /\ warned
    /\ lastTd = 404

\* C10: the record is persisted, with every assigned machine, before any
\* polling, certificate writing or registration; and when readiness ended in
\* failed / ready-without-host / timeout, cleanup has issued a teardown request
\* for every assigned machine by the time it ends.
C10_TeardownAfterReadinessFailure ==
    /\ pc \in {"wd_check", "wd_await", "wd_sleep", "wd_catch_sleep",
               "certs", "buildx", "outputs"}
          => ( builders > 0 /\ SavedIds = 1..builders )
    /\ ( pcC = "done" /\ failMsg \in ReadinessFailures )
          => ( builders > 0 /\ tornDown = 1..builders )

\* C10 witness: machine 1 reported failed, machine 2 was never polled, and
\* cleanup ended with teardown requests for both.
C10_Witness ==
    /\ pcC = "done"
    /\ failMsg = "FailedToInitialize"
    /\ builders = 2
    /\ idx = 1
    /\ tornDown = {1, 2}

RegisteredIds == {registered[i].id : i \in 1..Len(registered)}

\* the machines some output was set from
OutputMachines == {o.from : o \in outputs}

\* C11: run() ends without a failure only if at least one machine was assigned
\* and every assigned machine was reported ready with a host, had its three
\* certificate files written and its outputs set, and, when buildx setup is
\* requested, was registered with buildx; a run that ended with fewer machines
\* ready or registered has ended failed.
C11_SuccessMeansAllReady ==
    ( pc = "done" /\ failMsg = "none" )
        => /\ builders > 0
           /\ readyIds = 1..builders
           /\ \A m \in 1..builders : certs[m] = 3
           /\ OutputMachines = 1..builders
           /\ shouldSetupBuildx => RegisteredIds = 1..builders

\* C11 witness: a run over two machines has ended in success with both
\* registered (cleanup has not started yet).
C11_Witness ==
    /\ pc = "done"
    /\ pcC = "idle"
    /\ failMsg = "none"
    /\ builders = 2
    /\ shouldSetupBuildx
    /\ Len(registered) = 2

\* C12 (as claimed): whenever a deadline check of the acquisition loop or of
\* the readiness poller finds the deadline expired and the operation fails,
\* the error that reaches the caller carries the timeout classification.
C12_ExpiryIsTimeout ==
    [][ ( pc \in {"ab_check", "wd_check"} /\ pc' = "done" )
        => IsTimeoutError(failMsg') ]_vars

\* C13: a get-details response with status failed ends the poller in the same
\* step with the failed-to-initialize error, without a wait; and once run() has
\* ended no get-details request is issued any more (run() stays ended).
C13_FailedIsTerminal ==
    [][ /\ ( pc = "wd_await" /\ lastDetails' = "failed" )
           => /\ pc' = "done"
              /\ failMsg' = "FailedToInitialize"
              /\ readyIds' = readyIds
        /\ pc = "done" => pc' = "done"
      ]_vars

\* C13 witness: run() has ended on a failed status of the second machine.
C13_Witness ==
    /\ pc = "done"
    /\ pcC = "idle"
    /\ lastDetails = "failed"
    /\ failMsg = "FailedToInitialize"
    /\ idx = 2

\* C14: a get-details response with status ready hands the machine's details to
\* the setup step exactly when metadata.host is present and non-empty; with the
\* host missing or empty the poller ends at once with the host-missing error
\* and does not wait or poll again.
C14_ReadyNeedsHost ==
    [][ pc = "wd_await"
        => /\ lastDetails' = "ready"
                => ( pc' = "certs" /\ failMsg' = "none" /\ readyIds' = readyIds \cup {idx} )
           /\ lastDetails' \in {"ready_nohost", "ready_emptyhost"}
                => ( pc' = "done" /\ failMsg' = "HostMissing" /\ readyIds' = readyIds )
           /\ pc' = "certs" => lastDetails' = "ready"
      ]_vars

\* C14 witness: run() has ended on ready with an empty host for the second
\* machine, after the first machine was returned as ready.
C14_Witness ==
    /\ pc = "done"
    /\ pcC = "idle"
    /\ lastDetails = "ready_emptyhost"
    /\ failMsg = "HostMissing"
    /\ readyIds = {1}
    /\ idx = 2

\* C15: a get-details response whose status is neither ready nor failed (an
\* absent status included) leads to the fixed 2 s wait and from there to the
\* next deadline check for the same machine, which either issues the next
\* request or ends the poller with the timeout error; and a poller that is
\* waiting after such a response eventually either ends with the timeout error
\* or receives a response that is not of this kind (it does not poll forever).
C15_PendingPollsUntilTimeout ==
    /\ [][ /\ ( pc = "wd_await" /\ lastDetails' = "pending" )
               => ( pc' = "wd_sleep" /\ failMsg' = "none" )
           /\ pc = "wd_sleep"
               => ( pc' = "wd_check" /\ now' = now + PollWaitMs /\ idx' = idx )
           /\ pc = "wd_check"
               => \/ pc' = "wd_await" /\ now' = now /\ idx' = idx
                  \/ /\ pc' = "done"
                     /\ failMsg' = "GlobalTimeout"
                     /\ now - startTime > timeout
         ]_vars
    /\ ( pc = "wd_sleep" /\ lastDetails = "pending" )
           ~> ( ( pc = "done" /\ failMsg = "GlobalTimeout" ) \/ lastDetails # "pending" )

\* C15 witness: the poller has ended with the timeout error after a run of
\* pending responses for the second machine.
C15_Witness ==
    /\ pc = "done"
    /\ pcC = "idle"
    /\ failMsg = "GlobalTimeout"
    /\ lastDetails = "pending"
    /\ idx = 2

AcquisitionPcs == {"start", "ab_check", "ab_await", "ab_sleep"}

\* C16: with the profile list variant, the assign request in flight carries the
\* trimmed name at the current position of the comma separated input; the
\* position only moves forward, by one, when the deadline check gives the
\* current profile up; a success response hands its machine list to run() in
\* the same step; and once acquisition is left no assign request is issued any
\* more, for any profile.
C16_ProfilesInOrder ==
    [][ /\ ( variant = "profiles" /\ pc' = "ab_await" )
           => reqProfile' = <<ProfileLetters[profIdx']>>
        /\ ( pc \in AcquisitionPcs /\ profIdx' # profIdx )
           => /\ profIdx' = profIdx + 1
              /\ profIdx' <= nProfiles
              /\ pc = "ab_check"
              /\ now - AssignStart >= timeout
        /\ ( pc = "ab_await" /\ lastAssign' = "success" )
           => ( pc' = "save" /\ builders' > 0 /\ now' - now \in Latencies )
        /\ pc \notin AcquisitionPcs => pc' \notin AcquisitionPcs
      ]_vars

\* C16 witness: the second profile of "a , b" answered with success after the
\* first was given up, and run() has gone on to the setup of its machines.
C16_Witness ==
    /\ variant = "profiles"
    /\ profileName = ProfileInput(2)
    /\ profIdx = 2
    /\ reqProfile = <<"b">>
    /\ pc = "wd_check"
    /\ builders = 2

\* C17 (as claimed): with the profile list variant, no assign request is issued
\* for a later profile after a fatal response to an earlier one.  A request in
\* flight at elapsed 0 of a profile after the first is the first request for
\* that profile; the wait that preceded it then belongs to the profile before.
C17_FatalStopsProfileList ==
    ~ ( /\ variant = "profiles"
        /\ pc = "ab_await"
        /\ profIdx > 1
        /\ elapsedTime = 0
        /\ sleepAfter = "fatal" )

\* C18 (as claimed): when assignBuilders has failed because every profile of
\* the list ran out of its deadline, no machine list was returned and the
\* error names the profiles that were attempted.
C18_ExhaustedNamesProfiles ==
    failMsg = "FailedToGetBuilders"
        => /\ builders = 0
           /\ savedState = <<>>
           /\ ErrorProfiles(failMsg) = profileNameList

\* the range of HTTP status codes
IsHttpStatus(code) == code >= 100 /\ code < 600

\* C19 (as claimed): a transport failure reaches the caller as a failure of its
\* own kind: of assign and get-details as an exception (the wait that follows
\* is the one of the catch block, or the operation has ended), and of teardown
\* as a result whose statusCode is no HTTP status code.
C19_TransportIsNotAStatus ==
    /\ ( lastAssign = "transport" /\ pc # "done" ) => sleepAfter = "transport"
    /\ lastDetails = "transport" => pc \in {"wd_catch_sleep", "done"}
    /\ lastTd = TransportError
          => ~IsHttpStatus(teardownBuilder(TeardownTransportFailure))

\* C20 (as claimed): an unparseable get-details body raises no exception in the
\* readiness poller: after such a response the poller is not in its catch
\* block and run() has not ended with the error of a crash.
C20_ParseFailureNeverThrows ==
    lastDetails = "unparseable"
        => ( pc # "wd_catch_sleep" /\ failMsg # "TypeError" )

\* C21: a run of cleanup after the first, on the same record, never changes
\* the outcome of the step, whatever its teardown requests are answered (404
\* included); it ends, and when it has ended it has gone through every machine
\* of the record.
C21_SecondCleanupOnlyWarns ==
    /\ [][ clRun' >= 2 => failMsg' = failMsg ]_vars
    /\ []( ( clRun >= 2 /\ pcC = "done" /\ savedState # <<>> )
              => ( clIdx = Len(savedState) /\ tornDown = SavedIds ) )
    /\ ( clRun >= 2 ) ~> ( pcC = "done" )

\* C21 witness: the second cleanup run on a record of one machine has ended
\* after a successful main phase; its only teardown request was answered 404.
C21_Witness ==
    /\ clRun = 2
    /\ pcC = "done"
    /\ Len(savedState) = 1
    /\ tdReqs = 1
    /\ lastTd = 404
    /\ warned
    /\ failMsg = "none"

\* C22: as long as no record was persisted, cleanup has issued no teardown
\* request, has not tried to remove a buildx instance, and has not warned; it
\* is not started or has ended, and the outcome of the step is what the main
\* phase left.
C22_NoRecordNoCleanup ==
    savedState = <<>>
        => /\ pcC \in {"idle", "done"}
           /\ tornDown = {}
           /\ lastTd = NoAttempt
           /\ rmDone = "none"
           /\ ~warned
           /\ pcC = "done" => builders = 0

\* C22 witness: cleanup has ended after a main phase that failed during
\* acquisition and so left no record.
C22_Witness ==
    /\ pcC = "done"
    /\ clRun = 1
    /\ savedState = <<>>
    /\ failMsg = "TIMEOUT"

\* C25: create commands reach the build tool in machine-index order: the k-th
\* registration is that of machine index k - 1, and whenever the registration
\* of an index > 0 is about to start, every lower index has been registered
\* successfully (so index 1 is never registered in a run where index 0 was not).
C25_RegistrationsInIndexOrder ==
    /\ \A i \in 1..Len(registered) : registered[i].id = i
    /\ ( pc = "buildx" /\ shouldSetupBuildx ) => Len(registered) = idx - 1

\* C25 witness: index 0 is registered and the registration of index 1 starts.
C25_Witness ==
    /\ pc = "buildx"
    /\ idx = 2
    /\ Len(registered) = 1
    /\ registered[1].id = 1

\* the nodes of the group after a sequence of create commands: a create with
\* --append adds its node to the existing group, one without creates the
\* group anew with its node alone
RECURSIVE GroupNodes(_)
GroupNodes(cmds) ==
    IF cmds = <<>> THEN {}
    ELSE LET last == cmds[Len(cmds)]
             before == GroupNodes(SubSeq(cmds, 1, Len(cmds) - 1))
         IN  IF last.append THEN before \cup {last.id} ELSE {last.id}

\* C26 (as claimed): every registration uses the group name of the first one;
\* index 0 is registered without --append and every index > 0 with it; after
\* each registration the group holds the endpoints of all machines registered
\* so far.
C26_AppendKeepsEarlierEndpoints ==
    \A i \in 1..Len(registered) :
        /\ registered[i].name = registered[1].name
        /\ registered[i].append = (registered[i].id - 1 > 0)
        /\ GroupNodes(SubSeq(registered, 1, i)) = {registered[j].id : j \in 1..i}

\* C27: a failed write of a certificate file ends run() failed at once
\* ("WriteError" stands for the rejected fs call), and no machine is being or
\* has been registered with the build tool, or has outputs set, unless its
\* three certificate files were written.
C27_CertsBeforeUse ==
    /\ [][ ( pc = "certs" /\ pc' # "certs" /\ certs'[idx] < 3 )
             => ( pc' = "done" /\ failMsg' = "WriteError"
                  /\ registered' = registered /\ outputs' = outputs ) ]_vars
    /\ []( /\ \A m \in RegisteredIds \cup OutputMachines : certs[m] = 3
           /\ pc \in {"buildx", "outputs"} => certs[idx] = 3 )

\* C27 witness: the second machine's key file could not be written; the run
\* has failed with the first machine registered and the second not.
C27_Witness ==
    /\ pc = "done"
    /\ failMsg = "WriteError"
    /\ builders = 2
    /\ certs[1] = 3
    /\ certs[2] = 2
    /\ RegisteredIds = {1}
    /\ OutputMachines = {1}

\* an entry that already carries the linux/ namespace
IsNamespaced(entry) == Includes(entry, "linux/")

\* C28 (as claimed): once builderPlatforms is computed, it has one entry per
\* comma-separated entry of details.arch; an entry that was namespaced is
\* unchanged and an entry that was not is that entry prefixed with linux/
\* (surrounding blanks aside); and formatting the value again changes nothing.
C28_EveryEntryNormalized ==
    builderPlatforms # <<>> =>
        LET in == Split(arch, ",")
            out == Split(builderPlatforms, ",")
        IN  /\ Len(out) = Len(in)
            /\ \A i \in 1..Len(in) :
                  Trim(out[i]) = IF IsNamespaced(in[i]) THEN Trim(in[i])
                                 ELSE <<"linux/">> \o Trim(in[i])
            /\ FormatPlatforms(builderPlatforms) = builderPlatforms

\* the outputs set for node index i
OutputsOfIndex(i) == {o \in outputs : o.index = i}

C30_NoBuildxWhenDisabled ==
    ~shouldSetupBuildx
        => /\ registered = <<>>
           /\ pc # "buildx"
           /\ ( pc = "done" /\ failMsg = "none" )
                 => /\ builders > 0
                    /\ readyIds = 1..builders
                    /\ \A m \in 1..builders : certs[m] = 3
                    /\ outputs = UNION {NodeOutputs(m - 1, m) : m \in 1..builders}

\* C30 witness: a run over two machines with buildx setup switched off has
\* ended in success: nothing registered, all ten outputs set.
C30_Witness ==
    /\ ~shouldSetupBuildx
    /\ pc = "done"
    /\ failMsg = "none"
    /\ builders = 2
    /\ registered = <<>>
    /\ certs[1] = 3
    /\ certs[2] = 3
    /\ Cardinality(outputs) = 10

\* the positions inside the acquisition loop and inside the readiness poller
LoopPcs == {"ab_check", "ab_await", "ab_sleep",
            "wd_check", "wd_await", "wd_sleep", "wd_catch_sleep"}

\* C31 (as claimed): a deadline check that finds the deadline expired issues no
\* request in that step, and a loop with a request in flight always gets past
\* that request: the acquisition loop and the readiness poller never stay at
\* an unanswered request for ever.
C31_ExpiredLoopsStop ==
    /\ [][ ( \/ pc = "ab_check" /\ now - AssignStart >= timeout
             \/ pc = "wd_check" /\ now - startTime > timeout )
           => pc' \notin {"ab_await", "wd_await"} ]_vars
    /\ ( pc \in {"ab_await", "wd_await"} ) ~> ( pc \notin {"ab_await", "wd_await"} )
    /\ ( pc \in LoopPcs ) ~> ( pc \notin LoopPcs )

\* C32: with the profile list variant, a deadline check that finds the budget
\* of a profile used up moves to the next profile and restarts the deadline
\* there; every assign request is issued within the budget of its own profile,
\* counted from that restart, so a later profile is requested although the
\* time since the start of the run exceeds one budget.
C32_DeadlineResetPerProfile ==
    /\ [][ ( variant = "profiles" /\ pc = "ab_check"
             /\ now - globalStartTime >= timeout /\ profIdx < nProfiles )
           => ( profIdx' = profIdx + 1 /\ globalStartTime' = now
                /\ pc' = "ab_check" /\ failMsg' = failMsg ) ]_vars
    /\ []( ( variant = "profiles" /\ pc = "ab_await" )
             => ( elapsedTime < timeout
                  /\ elapsedTime = now - globalStartTime
                  /\ reqProfile = profileNameList[profIdx] ) )
    /\ []( ( variant = "profiles" /\ profIdx > 1 /\ pc \in AcquisitionPcs )
             => globalStartTime >= RunStart + (profIdx - 1) * timeout )

\* C32 witness: the second profile is being requested, within its own budget,
\* at a time when more than one budget has passed since the start of the run.
C32_Witness ==
    /\ variant = "profiles"
    /\ pc = "ab_await"
    /\ profIdx = 2
    /\ now - RunStart >= timeout
    /\ elapsedTime < timeout

\* the positions of run() inside its setup loop
SetupPcs == {"wd_check", "wd_await", "wd_sleep", "wd_catch_sleep",
             "certs", "buildx", "outputs"}

\* C33: the deadline start the readiness poller measures against is set once,
\* before the setup loop, and no step of the loop changes it, in particular
\* not the step from one machine to the next; every get-details request, for
\* whichever machine, is issued no later than one budget after that start.
C33_OneDeadlineForAllMachines ==
    /\ [][ ( pc \in SetupPcs ) => ( startTime' = startTime ) ]_vars
    /\ [][ ( pc = "outputs" /\ idx' = idx + 1 )
             => ( pc' = "wd_check" /\ startTime' = startTime /\ now' = now ) ]_vars
    /\ []( pc = "wd_await" => now - startTime <= timeout )

\* C33 witness: the first machine became ready late, the second one is being
\* polled with less than the full budget left.
C33_Witness ==
    /\ pc = "wd_await"
    /\ idx = 2
    /\ readyIds = {1}
    /\ now - startTime > 0
    /\ now - startTime <= timeout

\* C35: a persisted record lists the machines of the successful assign
\* response, one entry per instance, in the order of the response, each with
\* its position as index, and is never empty; it carries the group name every
\* registration of the run was made under; cleanup requests teardown for ids of
\* the record only and, once through, for every one of them, and calls
\* buildx rm with the record's group name and no other.
C35_RecordMatchesAssignAndCleanup ==
    /\ savedState = <<>> => ( savedName = "none" /\ tornDown = {} /\ rmName = "none" )
    /\ savedState # <<>>
          => /\ builders > 0
             /\ Len(savedState) = builders
             /\ \A i \in 1..Len(savedState) :
                   savedState[i].id = i /\ savedState[i].index = i - 1
             /\ savedName = BuilderName
             /\ \A j \in 1..Len(registered) : registered[j].name = savedName
             /\ tornDown \subseteq SavedIds
             /\ pcC = "done" => tornDown = SavedIds
             /\ rmName \in {"none", savedName}
             /\ pcC \in {"td_req", "td_await", "td_delay", "done"} => rmName = savedName

\* C35 witness: cleanup is through with a record of two machines: both torn
\* down, the group of the two registrations removed.
C35_Witness ==
    /\ pcC = "done"
    /\ Len(savedState) = 2
    /\ Len(registered) = 2
    /\ tornDown = {1, 2}
    /\ rmName = BuilderName
    /\ rmDone = "ok"

\* the events of one kind in a trace of assignBuilders
TraceCount(tr, ev) == Cardinality({i \in 1..Len(tr) : tr[i] = ev})

\* the responses of a trace, in order
RECURSIVE TraceResponses(_)
TraceResponses(tr) ==
    IF tr = <<>> THEN <<>>
    ELSE IF Head(tr) \in {"return", "throw", "retry"}
            THEN <<Head(tr)>> \o TraceResponses(Tail(tr))
            ELSE TraceResponses(Tail(tr))

\* k retryable responses followed by one success
RetriesThenSuccess(rs) ==
    /\ rs # <<>>
    /\ rs[Len(rs)] = "return"
    /\ \A i \in 1..(Len(rs) - 1) : rs[i] = "retry"

\* C36: when the first k assign responses are retryable and response k+1 is a
\* success, assignBuilders has issued exactly k+1 requests and slept exactly k
\* times when it returns, strictly alternating request, response, sleep; every
\* sleep lasts the same fixed 10 s and leads back to the deadline check of the
\* same profile; the call returns the machine list of the last response
C36_RetryableThenSuccess ==
    /\ []( ( pc = "save" /\ RetriesThenSuccess(TraceResponses(abTrace)) )
             => LET k == Len(TraceResponses(abTrace)) - 1
                IN  /\ TraceCount(abTrace, "request") = k + 1
                    /\ TraceCount(abTrace, "sleep") = k
                    /\ Len(abTrace) = 3 * k + 2
                    /\ \A i \in 1..k : /\ abTrace[3 * i - 2] = "request"
                                        /\ abTrace[3 * i - 1] = "retry"
                                        /\ abTrace[3 * i] = "sleep"
                    /\ builders > 0
                    /\ lastAssign = "success" )
    /\ [][ ( pc = "ab_sleep" )
           => ( now' = now + AssignWaitMs /\ pc' = "ab_check" /\ profIdx' = profIdx
                /\ builders' = builders ) ]_vars
    /\ [][ ( pc = "ab_await" /\ pc' = "save" )
           => ( \E o \in AssignOutcomes : AssignStep(o) = "return" /\ builders' = o.n ) ]_vars

\* two retryable responses, two sleeps, then the success
C36_Witness ==
    /\ pc = "save"
    /\ abTrace = <<"request", "retry", "sleep", "request", "retry", "sleep", "request", "return">>
    /\ now - RunStart >= 2 * AssignWaitMs

\* the step in which a teardown request fails in transport
TeardownTransportStep == pcC = "td_await" /\ lastTd' = TransportError

\* C37: teardownBuilder returns a status code for every outcome and 500 for a
\* transport failure; on a first attempt cleanup then waits and calls it once
\* more for the same machine, on the second attempt it logs a warning, leaves
\* the step's result alone and goes on to the next machine (or ends after the
\* last); no machine gets more than two teardown requests
C37_TransportFailureIsRetriedOnce ==
    /\ [](\A o \in TeardownOutcomes : teardownBuilder(o) \in Nat /\ (~o.net => teardownBuilder(o) = 500))
    /\ [][ ( TeardownTransportStep /\ clAttempt = 1 )
           => ( pcC' = "td_delay" /\ clIdx' = clIdx /\ warned' = warned /\ failMsg' = failMsg ) ]_vars
    /\ [][ ( pcC = "td_delay" )
           => ( pcC' = "td_req" /\ clAttempt' = 2 /\ clIdx' = clIdx ) ]_vars
    /\ [][ ( TeardownTransportStep /\ clAttempt = 2 )
           => ( /\ warned' /\ failMsg' = failMsg /\ tdReqs = 2
                /\ IF clIdx < Len(savedState)
                      THEN clIdx' = clIdx + 1 /\ clAttempt' = 1 /\ pcC' = "td_req"
                      ELSE pcC' = "done" ) ]_vars
    /\ [](tdReqs <= 2 /\ clAttempt <= 2)

\* the teardown of the first machine failed twice in transport, and cleanup
\* has asked for the teardown of the second
C37_Witness ==
    /\ pcC = "td_await" /\ clIdx = 2 /\ lastTd = TransportError /\ warned
    /\ tornDown = {1, 2} /\ failMsg = "none"

\* the body classes on which the poller ends the run
FatalDetails == {"failed", "ready_nohost", "ready_emptyhost"}

\* C38: the poller decides on the parsed body alone: whatever the HTTP status
\* of a get-details response, a parseable body whose status is neither ready
\* nor failed leads to the 2 s wait and the next poll, a ready body with a host
\* ends the wait successfully, and the run ends at a response only for a
\* failed or host-less ready body; the wait leads back to the deadline check
C38_PollerIgnoresHttpStatus ==
    /\ [][ ( pc = "wd_await" /\ lastDetails' = "pending" )
           => ( pc' = "wd_sleep" /\ failMsg' = failMsg /\ readyIds' = readyIds ) ]_vars
    /\ [][ ( pc = "wd_await" /\ lastDetails' = "ready" )
           => ( pc' = "certs" /\ failMsg' = failMsg ) ]_vars
    /\ [][ ( pc = "wd_await" /\ pc' = "done" ) => ( lastDetails' \in FatalDetails ) ]_vars
    /\ [][ ( pc = "wd_sleep" ) => ( pc' = "wd_check" /\ failMsg' = failMsg ) ]_vars
    /\ [][ ( pc = "sh_check" /\ ~ShExpired /\ lastDetails' = "pending" )
           => ( pc' = "sh_sleep" /\ failMsg' = failMsg ) ]_vars

\* a 503 response with a pending body is being waited out
C38_Witness ==
    /\ pc = "wd_sleep" /\ lastDetails = "pending" /\ detailsHttp = 503
    /\ failMsg = "none" /\ now - startTime <= timeout

\* the step in which run() fails while it handles machine idx
SetupFailureStep == pc \in SetupPcs /\ pc' = "done" /\ failMsg' # "none"

\* C39: the main phase never rolls back. In the step in which run() fails at
\* machine k, the certificate files of the machines before k, the registrations
\* and the outputs are what they were; afterwards the main process takes no
\* further step of its own, so the machines after k have no certificate file,
\* no ready report, no registration and no output; and a teardown request is
\* only ever issued by cleanup
C39_MainNeverRollsBack ==
    /\ [][ SetupFailureStep
           => ( /\ \A m \in 1..(idx - 1) : certs'[m] = certs[m]
                /\ registered' = registered
                /\ outputs' = outputs
                /\ idx' = idx
                /\ tornDown' = tornDown /\ tdReqs' = tdReqs ) ]_vars
    /\ [][ ( pc = "done" )
           => ( pc' = "done" /\ idx' = idx /\ certs' = certs /\ registered' = registered
                /\ outputs' = outputs /\ readyIds' = readyIds ) ]_vars
    /\ []( ( pc = "done" /\ failMsg # "none" /\ idx > 0 )
             => \A m \in Machines :
                  m > idx => ( certs[m] = 0 /\ m \notin readyIds /\ m \notin RegisteredIds
                               /\ m \notin OutputMachines ) )
    /\ []( pc # "done" => ( pcC = "idle" /\ tornDown = {} /\ tdReqs = 0 /\ rmName = "none" ) )
    /\ [][ ( tornDown' \ tornDown # {} \/ tdReqs' > tdReqs ) => ( pcC = "td_req" /\ pc = "done" ) ]_vars

\* the run failed at the second machine after the first was set up completely,
\* and cleanup has not started
C39_Witness ==
    /\ pc = "done" /\ pcC = "idle" /\ failMsg \in {"FailedToInitialize", "WriteError", "ExecError"}
    /\ idx = 2 /\ certs[1] = 3 /\ RegisteredIds = {1} /\ OutputMachines = {1}
    /\ tornDown = {}

\* response.statusCode >= 200 && response.statusCode < 300
IsSuccessCode(code) == code >= 200 /\ code < 300

\* C40 (as claimed): cleanup decides on the HTTP status of the teardown
\* response, whatever its body: a 5xx status on the first attempt leads to the
\* delay and the second call, a 2xx status ends the machine without a warning,
\* and any other status (or a 5xx on the second attempt) ends it with one
C40_DecisionFollowsHttpStatus ==
    [][ ( pcC = "td_await" /\ lastTd' # TransportError )
        => ( /\ ( IsServerError(lastTd') /\ clAttempt = 1 ) => pcC' = "td_delay"
             /\ ( IsServerError(lastTd') /\ clAttempt = 2 ) => ( pcC' # "td_delay" /\ warned' )
             /\ IsSuccessCode(lastTd') => ( pcC' # "td_delay" /\ warned' = warned )
             /\ ( ~IsServerError(lastTd') /\ ~IsSuccessCode(lastTd') )
                   => ( pcC' # "td_delay" /\ warned' ) ) ]_vars

\* the credential the data model makes active: the token when it is set and
\* is not the placeholder, otherwise the api-key (<<>>: none)
ActiveCredential ==
    IF envToken # <<>> /\ envToken # TrueLiteral THEN envToken ELSE apiKey

RequestInFlight == pc \in {"ab_await", "wd_await"} \/ pcC = "td_await"

\* C23: once the configuration is built, the credential of config.authHeader
\* is the token when the token is set and is not 'true', and the api-key
\* otherwise; and with no token (or 'true') and no api-key, run() ends with the
\* configuration error before any request: no assign, get-details or teardown
\* request is ever in flight, no machine is acquired and no record is saved.
C23_OneActiveCredential ==
    /\ ( pc # "start" /\ failMsg # "ConfigError" )
          => /\ ActiveCredential # <<>>
             /\ generateAuthHeader(envToken, apiKey) = AuthPrefix \o ActiveCredential
    /\ ActiveCredential = <<>>
          => /\ pc \in {"start", "done"}
             /\ pc = "done" => failMsg = "ConfigError"
             /\ ~RequestInFlight
             /\ builders = 0
             /\ savedState = <<>>
             /\ tornDown = {}

\* C23 witness: an assign request is in flight with the api-key as credential
\* although the verification token is set (to the placeholder 'true').
C23_Witness ==
    /\ pc = "ab_await"
    /\ envToken = TrueLiteral
    /\ apiKey = <<"k">>
    /\ generateAuthHeader(envToken, apiKey) = AuthPrefix \o <<"k">>

\* C24 (as claimed): whenever an assign, get-details or teardown request is in
\* flight, its headers are Authorization: Bearer <the active credential>.
C24_BearerIsTheCredential ==
    RequestInFlight
        => /\ RequestAuth(generateAuthHeader(envToken, apiKey)).name = <<"Authorization">>
           /\ RequestAuth(generateAuthHeader(envToken, apiKey)).value
                  = <<"Bearer", " ">> \o ActiveCredential
====
